---------------------------- MODULE Spec2Model ----------------------------
(***************************************************************************)
(* A model of youch-core: ErrorParser (src/unnamed/part_000, lines 1-357)  *)
(* and SourceFile (src/src/source_file.ts).                                *)
(*                                                                         *)
(* Text is modelled as a sequence of one-character strings, so that        *)
(* String.prototype.includes, startsWith, split and replace are computed   *)
(* on characters as the code computes them.                                *)
(***************************************************************************)
EXTENDS Integers, Sequences, FiniteSets, TLC

VARIABLES
  offset,        \* ErrorParser.#offset
  sourceFiles,   \* ErrorParser.#sourceFiles, the cache
  sourceLoader,  \* ErrorParser.#sourceLoader
  parsers,       \* ErrorParser.#parsers
  transformers,  \* ErrorParser.#transformers
  calls,         \* the activation record of every parse() call
  loaderCalls,   \* history: invocations of the source loader, per file name
  reads,         \* history: readFile calls of the default loader, per file name
  absent,        \* history: the file names for which a loader returned nothing
  started,       \* history: number of parse() calls made so far
  probe          \* input and result of the last direct call of a pure method

vars == <<offset, sourceFiles, sourceLoader, parsers, transformers, calls,
          loaderCalls, reads, absent, started, probe>>

parserVars == <<offset, sourceFiles, sourceLoader, parsers, transformers,
                calls, loaderCalls, reads, absent, started>>

(***************************************************************************)
(* Bounds of the model.                                                    *)
(***************************************************************************)
MaxOffset == 2
MaxCalls == 2
MaxHooks == 1
MaxPipeline == 2
MaxLines == 14
MaxBuffer == 12
MaxLoads == 3

(***************************************************************************)
(* Text helpers: the String methods the code uses.                         *)
(***************************************************************************)
startsWith(s, p) ==
  /\ Len(p) <= Len(s)
  /\ SubSeq(s, 1, Len(p)) = p

\* s.includes(p): p occurs at some position of s, scanned left to right.
RECURSIVE includesFrom(_, _, _)
includesFrom(s, p, i) ==
  IF i + Len(p) - 1 > Len(s) THEN FALSE
  ELSE IF SubSeq(s, i, i + Len(p) - 1) = p THEN TRUE
  ELSE includesFrom(s, p, i + 1)

includes(s, p) == includesFrom(s, p, 1)

\* s.replace(/\\/g, '/')
replaceBackslashes(s) == [i \in 1..Len(s) |-> IF s[i] = "\\" THEN "/" ELSE s[i]]

\* s.split(sep) for a one-character separator: always at least one token.
RECURSIVE splitAcc(_, _, _, _)
splitAcc(s, sep, i, cur) ==
  IF i > Len(s) THEN <<cur>>
  ELSE IF s[i] = sep THEN <<cur>> \o splitAcc(s, sep, i + 1, <<>>)
  ELSE splitAcc(s, sep, i + 1, Append(cur, s[i]))

split(s, sep) == splitAcc(s, sep, 1, <<>>)

\* tokens.join(sep)
RECURSIVE join(_, _)
join(tokens, sep) ==
  IF Len(tokens) = 0 THEN <<>>
  ELSE IF Len(tokens) = 1 THEN tokens[1]
  ELSE tokens[1] \o <<sep>> \o join(Tail(tokens), sep)

(***************************************************************************)
(* The markers of the classifier.                                          *)
(***************************************************************************)
NodeMarker == <<"n", "o", "d", "e", ":">>
ExtMarker == <<"e", "x", "t", ":">>
nativeFramesIdentifiers == {NodeMarker, ExtMarker}
bunNativeIdentifier == <<"n", "a", "t", "i", "v", "e">>
NodeModulesMarker == <<"n", "o", "d", "e", "_", "m", "o", "d", "u", "l", "e", "s", "/">>
HttpPrefix == <<"h", "t", "t", "p", ":", "/", "/">>
HttpsPrefix == <<"h", "t", "t", "p", "s", ":", "/", "/">>
FilePrefix == <<"f", "i", "l", "e", ":">>
ExtendedLengthPrefix == <<"\\", "\\", "?", "\\">>

(***************************************************************************)
(* ErrorParser.#getFrameType and #getFrameSourceType.                      *)
(***************************************************************************)
getFrameTypeModuleFirst(fileName) ==
  IF includes(fileName, NodeModulesMarker) THEN "module"
  ELSE IF \/ \E identifier \in nativeFramesIdentifiers : includes(fileName, identifier)
          \/ fileName = bunNativeIdentifier
  THEN "native"
  ELSE "app"

getFrameType(fileName) ==
  IF \/ \E identifier \in nativeFramesIdentifiers : includes(fileName, identifier)
     \/ fileName = bunNativeIdentifier
  THEN "native"
  ELSE IF includes(fileName, NodeModulesMarker) THEN "module" ELSE "app"

getFrameSourceType(fileName) ==
  IF startsWith(fileName, HttpPrefix) THEN "http"
  ELSE IF startsWith(fileName, HttpsPrefix) THEN "https"
  ELSE "fs"

(***************************************************************************)
(* ErrorParser.#toUnixSlash and #normalizeFileName.                        *)
(***************************************************************************)
toUnixSlashAlways(fileName) == replaceBackslashes(fileName)

toUnixSlash(fileName) ==
  LET isExtendedLengthPath == startsWith(fileName, ExtendedLengthPrefix)
  IN IF isExtendedLengthPath THEN fileName ELSE replaceBackslashes(fileName)

\* The position of the first "/" of s at or after i, or Len(s) + 1.
RECURSIVE firstSlashFrom(_, _)
firstSlashFrom(s, i) ==
  IF i > Len(s) THEN Len(s) + 1
  ELSE IF s[i] = "/" THEN i
  ELSE firstSlashFrom(s, i + 1)

\* node:url fileURLToPath on a POSIX host, for a text that starts with
\* "file:" and holds no percent-escape and no backslash: "file:///p",
\* "file:/p" and "file:p" give "/p"; a URL with a host is refused
\* (ERR_INVALID_FILE_URL_HOST).
fileURLToPath(url) ==
  LET rest == SubSeq(url, Len(FilePrefix) + 1, Len(url))
  IN IF startsWith(rest, <<"/", "/">>)
     THEN LET slash == firstSlashFrom(rest, 3)
              host == SubSeq(rest, 3, slash - 1)
              path == SubSeq(rest, slash, Len(rest))
          IN IF host # <<>>
             THEN [ok |-> FALSE, path |-> <<>>]
             ELSE [ok |-> TRUE, path |-> IF path = <<>> THEN <<"/">> ELSE path]
     ELSE IF startsWith(rest, <<"/">>)
     THEN [ok |-> TRUE, path |-> rest]
     ELSE [ok |-> TRUE, path |-> <<"/">> \o rest]

\* [ok, path]: ok is FALSE when fileURLToPath throws.
normalizeFileName(fileName) ==
  IF startsWith(fileName, FilePrefix)
  THEN LET r == fileURLToPath(fileName)
       IN [ok |-> r.ok, path |-> toUnixSlash(r.path)]
  ELSE [ok |-> TRUE, path |-> toUnixSlash(fileName)]

(***************************************************************************)
(* SourceFile (src/src/source_file.ts).  A SourceFile is a record          *)
(* [hasContents, contents, loaded]; hasContents is FALSE while #contents   *)
(* is undefined.                                                           *)
(***************************************************************************)
NoSource == [present |-> FALSE, chunks |-> <<>>]
Chunks(cs) == [present |-> TRUE, chunks |-> cs]

\* contents.split(/\n|\r\n/): "\n" alone and "\r\n" separate lines, a lone
\* "\r" does not.
RECURSIVE splitLinesAcc(_, _, _)
splitLinesAcc(s, i, cur) ==
  IF i > Len(s) THEN <<cur>>
  ELSE IF s[i] = "\n" THEN <<cur>> \o splitLinesAcc(s, i + 1, <<>>)
  ELSE IF s[i] = "\r" /\ i < Len(s) /\ s[i + 1] = "\n"
       THEN <<cur>> \o splitLinesAcc(s, i + 2, <<>>)
  ELSE splitLinesAcc(s, i + 1, Append(cur, s[i]))

splitLines(contents) == splitLinesAcc(contents, 1, <<>>)

\* Math.ceil(n / 2) on integers.
ceilHalf(n) == -((-n) \div 2)

Max(a, b) == IF a >= b THEN a ELSE b
Min(a, b) == IF a <= b THEN a ELSE b

\* Array.prototype.slice(start, end) as the 1-based bounds of SubSeq.
sliceFrom(len, start) == IF start < 0 THEN Max(len + start, 0) ELSE Min(start, len)

arraySlice(arr, start, end) ==
  LET from == sliceFrom(Len(arr), start)
      to == sliceFrom(Len(arr), end)
  IN SubSeq(arr, from + 1, to)

sliceStartUncorrected(contentSize, lineNumber, chunkSize) ==
  IF chunkSize >= lineNumber THEN 0 ELSE lineNumber - chunkSize - 1

\* The start index of the window: lines 92-109.
sliceStart(contentSize, lineNumber, chunkSize) ==
  LET startIndex == IF chunkSize >= lineNumber THEN 0 ELSE lineNumber - chunkSize - 1
  IN IF contentSize - lineNumber < chunkSize
     THEN Max(startIndex - (chunkSize - (contentSize - lineNumber)), 0)
     ELSE startIndex

sliceLinesNumberedFromOne(contents, lineNumber, bufferSize) ==
  LET lines == splitLines(contents)
      contentSize == Len(lines)
      chunkSize == ceilHalf(bufferSize - 1)
      startIndex == sliceStart(contentSize, lineNumber, chunkSize)
      sourceIndex == lineNumber - 1
      startRemainder == startIndex - sourceIndex + chunkSize
      endIndex == startRemainder + chunkSize + lineNumber
      window == arraySlice(lines, startIndex, endIndex)
  IN [index \in 1..Len(window) |->
        [chunk |-> window[index], lineNumber |-> (index - 1) + 1]]

\* The body of slice after its guards: lines 71-144.
sliceLines(contents, lineNumber, bufferSize) ==
  LET lines == splitLines(contents)
      contentSize == Len(lines)
      chunkSize == ceilHalf(bufferSize - 1)
      startIndex == sliceStart(contentSize, lineNumber, chunkSize)
      sourceIndex == lineNumber - 1
      startRemainder == startIndex - sourceIndex + chunkSize
      endIndex == startRemainder + chunkSize + lineNumber
      window == arraySlice(lines, startIndex, endIndex)
  IN [index \in 1..Len(window) |->
        [chunk |-> window[index], lineNumber |-> startIndex + (index - 1) + 1]]

\* slice testing #contents against undefined only.
sliceContentsOfEmptyText(hasContents, contents, lineNumber, bufferSize) ==
  IF ~hasContents
  THEN NoSource
  ELSE Chunks(sliceLines(contents, lineNumber, bufferSize))

\* SourceFile.slice of a file whose contents are known: lines 67-144.
sliceContents(hasContents, contents, lineNumber, bufferSize) ==
  IF ~hasContents \/ contents = <<>>
  THEN NoSource
  ELSE Chunks(sliceLines(contents, lineNumber, bufferSize))

(***************************************************************************)
(* SourceFile objects.                                                     *)
(***************************************************************************)
\* new SourceFile(options): lines 25-30.
newSourceFile(hasContents, contents) ==
  [hasContents |-> hasContents, contents |-> contents, loaded |-> FALSE]

\* The SourceFile that #getSource builds from the contents a loader gave
\* (part_000 line 120) and slices at once, without a load() in between:
\* its contents are in place from construction.
loadedSourceFile(contents) ==
  [hasContents |-> TRUE, contents |-> contents, loaded |-> TRUE]

\* SourceFile.slice without the guard on #loaded.
sourceFileSliceUnguarded(sourceFile, lineNumber, bufferSize) ==
  [threw |-> FALSE,
   source |-> sliceContents(sourceFile.hasContents, sourceFile.contents,
                            lineNumber, bufferSize)]

\* SourceFile.slice: [threw, source].
sourceFileSlice(sourceFile, lineNumber, bufferSize) ==
  IF ~sourceFile.loaded
  THEN [threw |-> TRUE, source |-> NoSource]
  ELSE [threw |-> FALSE,
        source |-> sliceContents(sourceFile.hasContents, sourceFile.contents,
                                 lineNumber, bufferSize)]

(***************************************************************************)
(* The world of the parser model: files, stack frames, thrown values.      *)
(***************************************************************************)
\* The window size #getSource asks for.
FrameSourceBuffer == 11

FileA == <<"/", "a">>
FileMissing == <<"/", "m">>
FileNative == NodeMarker \o <<"f">>
FileHttp == HttpPrefix \o <<"h">>
FileUrlA == FilePrefix \o <<"/", "/", "/", "a">>
\* "file://h/a": a file: URL that names a host.
FileUrlHost == FilePrefix \o <<"/", "/", "h", "/", "a">>
\* "\node_modules\a", and the same behind the extended-length marker.
FileWin ==
  <<"\\", "n", "o", "d", "e", "_", "m", "o", "d", "u", "l", "e", "s", "\\", "a">>
FileExt == ExtendedLengthPrefix \o FileWin

\* "a\nb\n...\nl": the twelve lines of /a on disk.
DiskA ==
  join(<<<<"a">>, <<"b">>, <<"c">>, <<"d">>, <<"e">>, <<"f">>, <<"g">>,
         <<"h">>, <<"i">>, <<"j">>, <<"k">>, <<"l">>>>, "\n")

\* The text the custom loader returns for every frame: "X\nY\nZ".
FixedText == <<"X", "\n", "Y", "\n", "Z">>

\* "/e": a file that exists and is empty.
FileEmpty == <<"/", "e">>

\* readFile(fileName, 'utf-8'): [ok, contents]; only /a and /e exist.
readFile(fileName) ==
  IF fileName = FileA THEN [ok |-> TRUE, contents |-> DiskA]
  ELSE IF fileName = FileEmpty THEN [ok |-> TRUE, contents |-> <<>>]
  ELSE [ok |-> FALSE, contents |-> <<>>]

\* A frame of the stack extractor (error-stack-parser-es): fileName is <<>>
\* when the frame has none, lineNumber is <<>> or <<n>>, source is the
\* frame's text.
ESFrame(fileName, lineNumber, source) ==
  [fileName |-> fileName, lineNumber |-> lineNumber, source |-> source]

fA == ESFrame(FileA, <<2>>, <<"r", "A">>)
fA9 == ESFrame(FileA, <<9>>, <<"r", "9">>)
fMissing == ESFrame(FileMissing, <<1>>, <<"r", "M">>)
fNative == ESFrame(FileNative, <<5>>, <<"r", "N">>)
fHttp == ESFrame(FileHttp, <<>>, <<"r", "H">>)
fUrlA == ESFrame(FileUrlA, <<7>>, <<"r", "U">>)
fNoFile == ESFrame(<<>>, <<>>, <<"r", "0">>)
fUrlHost == ESFrame(FileUrlHost, <<1>>, <<"r", "T">>)
fWin == ESFrame(FileWin, <<1>>, <<"r", "W">>)
fExt == ESFrame(FileExt, <<3>>, <<"r", "E">>)

Stacks ==
  { <<>>,
    <<fA>>,
    <<fNoFile, fA, fMissing>>,
    <<fMissing, fMissing>>,
    <<fHttp, fUrlA, fNative>>,
    <<fA9, fA>>,
    <<fUrlHost>>,
    <<fWin, fExt>> }

\* error.stack: defined is FALSE when the property holds undefined; line1 is
\* its first line; frames is what the stack extractor returns for it.
Stack(line1, frames) == [defined |-> TRUE, line1 |-> line1, frames |-> frames]
NoStack == [defined |-> FALSE, line1 |-> <<>>, frames |-> <<>>]

\* The values that can be thrown.  A primitive is [kind]; an object also
\* says what it is an instance of, which keys it has and what they hold.
\* hint and help are "" when the object has none.
Primitive(kind) == [kind |-> kind]
Undefined == Primitive("undefined")

Object(kind, isError, isSyntaxError, hasMessage, hasStack, message, stack) ==
  [kind |-> kind, instanceOfError |-> isError,
   instanceOfSyntaxError |-> isSyntaxError,
   hasMessage |-> hasMessage, hasStack |-> hasStack,
   message |-> message, stack |-> stack,
   hint |-> "", help |-> "", cause |-> Undefined]

PrimitiveKinds == {"undefined", "null", "boolean", "bigint"}
isObject(v) == v.kind \notin PrimitiveKinds

ErrorOf(frames) ==
  Object("Error", TRUE, FALSE, TRUE, TRUE, "boom",
         Stack(<<"E">>, frames))

SyntaxErrorAt(line1, frames) ==
  Object("SyntaxError", TRUE, TRUE, TRUE, TRUE, "Unexpected token",
         Stack(line1, frames))

\* A SyntaxError whose stack property was set to undefined.
SyntaxErrorNoStack ==
  Object("SyntaxError", TRUE, TRUE, TRUE, TRUE, "Unexpected token", NoStack)

\* A plain record { message, stack }, as a browser reports it.
ErrorShaped(frames) ==
  Object("record", FALSE, FALSE, TRUE, TRUE, "hello is not defined",
         Stack(<<"R">>, frames))

\* { message: 'm' }: a message but no stack.
MessageOnly == Object("messageOnly", FALSE, FALSE, TRUE, FALSE, "m", NoStack)
\* {} or a Promise.
EmptyObject == Object("object", FALSE, FALSE, FALSE, FALSE, "", NoStack)
\* An object that refers to itself.
Circular == Object("circular", FALSE, FALSE, FALSE, FALSE, "", NoStack)

Values ==
  { ErrorOf(st) : st \in Stacks }
    \cup { SyntaxErrorAt(<<"/", "a", ":", "3">>, <<fNative>>),
           SyntaxErrorAt(<<"S">>, <<fA>>),
           SyntaxErrorNoStack,
           ErrorShaped(<<fHttp, fA>>),
           MessageOnly, EmptyObject, Circular,
           Primitive("boolean"), Primitive("null"), Undefined,
           Primitive("bigint") }

(***************************************************************************)
(* ErrorParser.#normalizeError.                                            *)
(***************************************************************************)
\* JSON.stringify(value): [threw, defined, text].  It throws a TypeError on
\* a BigInt and on a circular structure, and returns undefined (defined is
\* FALSE) for undefined.
JSONstringify(v) ==
  CASE v.kind = "boolean" -> [threw |-> FALSE, defined |-> TRUE, text |-> "true"]
    [] v.kind = "null" -> [threw |-> FALSE, defined |-> TRUE, text |-> "null"]
    [] v.kind = "undefined" -> [threw |-> FALSE, defined |-> FALSE, text |-> ""]
    [] v.kind = "bigint" -> [threw |-> TRUE, defined |-> FALSE, text |-> ""]
    [] v.kind = "circular" -> [threw |-> TRUE, defined |-> FALSE, text |-> ""]
    [] v.kind = "messageOnly" ->
         [threw |-> FALSE, defined |-> TRUE, text |-> "{\"message\":\"m\"}"]
    [] OTHER -> [threw |-> FALSE, defined |-> TRUE, text |-> "{}"]

\* error.help, up to the end of its first sentence.
HelpText ==
  "To get as much information as possible from your errors, make sure to throw Error objects."

\* The frames the stack extractor finds in the stack of an error made
\* inside #normalizeError.
SyntheticFrames == <<fA>>

\* new Exception(message): an Error whose message is the text given, or ""
\* when undefined is given, and that has no cause.
Exception(json) ==
  [Object("Exception", TRUE, FALSE, TRUE, TRUE,
          IF json.defined THEN json.text ELSE "",
          Stack(<<"X">>, SyntheticFrames))
   EXCEPT !.cause = Undefined]

isErrorShaped(source) ==
  /\ isObject(source)
  /\ source.hasMessage
  /\ source.hasStack

normalizeErrorNoHelp(source) ==
  IF isObject(source) /\ source.instanceOfError
  THEN [threw |-> FALSE, error |-> source]
  ELSE IF isErrorShaped(source)
  THEN [threw |-> FALSE, error |-> source]
  ELSE LET json == JSONstringify(source)
       IN IF json.threw
          THEN [threw |-> TRUE, error |-> Undefined]
          ELSE [threw |-> FALSE, error |-> Exception(json)]

\* [threw, error]: threw is TRUE when JSON.stringify throws.
normalizeError(source) ==
  IF isObject(source) /\ source.instanceOfError
  THEN [threw |-> FALSE, error |-> source]
  ELSE IF isErrorShaped(source)
  THEN [threw |-> FALSE, error |-> source]
  ELSE LET json == JSONstringify(source)
       IN IF json.threw
          THEN [threw |-> TRUE, error |-> Undefined]
          ELSE [threw |-> FALSE,
                error |-> [Exception(json) EXCEPT !.help = HelpText]]

(***************************************************************************)
(* ErrorParser.#parseSyntaxError and #applyOffset.                         *)
(***************************************************************************)
Digits == {"0", "1", "2", "3", "4", "5", "6", "7", "8", "9"}

digitValue(ch) ==
  CASE ch = "0" -> 0 [] ch = "1" -> 1 [] ch = "2" -> 2 [] ch = "3" -> 3
    [] ch = "4" -> 4 [] ch = "5" -> 5 [] ch = "6" -> 6 [] ch = "7" -> 7
    [] ch = "8" -> 8 [] OTHER -> 9

RECURSIVE decimalValue(_)
decimalValue(token) ==
  IF token = <<>> THEN 0
  ELSE 10 * decimalValue(SubSeq(token, 1, Len(token) - 1))
         + digitValue(token[Len(token)])

\* Number(token): [nan, value], for a token without blank, sign, point,
\* exponent or radix prefix, and that is not "Infinity": it is a number
\* when it holds digits only, and the empty text is the number 0.
toNumber(token) ==
  IF \A i \in 1..Len(token) : token[i] \in Digits
  THEN [nan |-> FALSE, value |-> decimalValue(token)]
  ELSE [nan |-> TRUE, value |-> 0]

\* [threw, frames]: threw is TRUE when error.stack is undefined, so that
\* sourceIdentifier is undefined and sourceIdentifier.split throws.
parseSyntaxError(error) ==
  IF ~error.stack.defined
  THEN [threw |-> TRUE, frames |-> <<>>]
  ELSE LET sourceIdentifier == error.stack.line1
           tokens == split(sourceIdentifier, ":")
           lineNumber == toNumber(tokens[Len(tokens)])
           fileName == join(SubSeq(tokens, 1, Len(tokens) - 1), ":")
       IN IF fileName # <<>> /\ ~lineNumber.nan
          THEN [threw |-> FALSE,
                frames |-> <<ESFrame(fileName, <<lineNumber.value>>,
                                     sourceIdentifier)>>]
          ELSE [threw |-> FALSE, frames |-> <<>>]

extractFramesUnlessSyntaxError(error) ==
  IF error.stack.defined /\ ~error.instanceOfSyntaxError
  THEN error.stack.frames ELSE <<>>

\* parse(error, { allowEmpty: true }) of error-stack-parser-es.
extractFrames(error) == IF error.stack.defined THEN error.stack.frames ELSE <<>>

\* The offset left unapplied.
applyOffsetIgnored(off, frames) == frames

\* #offset is <<>> when unset and <<k>> when set.
applyOffsetOneLess(off, frames) ==
  IF off # <<>> /\ off[1] # 0
  THEN arraySlice(frames, off[1] - 1, Len(frames))
  ELSE frames

applyOffset(off, frames) ==
  IF off # <<>> /\ off[1] # 0
  THEN arraySlice(frames, off[1], Len(frames))
  ELSE frames

(***************************************************************************)
(* Pre-processors, post-processors and source loaders that can be          *)
(* registered.                                                             *)
(***************************************************************************)
\* "promiseToError" turns {} (a Promise) into an Error and returns every
\* other value as it is; "throws" throws.
ParserNames == {"promiseToError", "throws"}

applyParser(parser, value) ==
  IF parser = "throws"
  THEN [threw |-> TRUE, value |-> value]
  ELSE [threw |-> FALSE,
        value |-> IF value.kind = "object"
                  THEN [ErrorOf(<<fA>>) EXCEPT !.message = "Promise cannot be thrown"]
                  ELSE value]

\* One call of a pre-processor, as it is written to the log of the calls.
ParserCall(i, parser, received, r) ==
  [index |-> i, parser |-> parser, received |-> received,
   threw |-> r.threw, returned |-> r.value]

RECURSIVE runParsersFromLast(_, _, _)
runParsersFromLast(ps, value, i) ==
  IF ps = <<>> THEN [threw |-> FALSE, value |-> value, log |-> <<>>]
  ELSE LET n == Len(ps)
           r == applyParser(ps[n], value)
           this == ParserCall(i + n - 1, ps[n], value, r)
       IN IF r.threw
          THEN [threw |-> TRUE, value |-> r.value, log |-> <<this>>]
          ELSE LET rest == runParsersFromLast(SubSeq(ps, 1, n - 1), r.value, i)
               IN [rest EXCEPT !.log = <<this>> \o @]

\* this.#parsers.reduce(...) over the parsers from the i-th on:
\* [threw, value, log]; log is the sequence of the calls made.
RECURSIVE runParsers(_, _, _)
runParsers(ps, value, i) ==
  IF ps = <<>> THEN [threw |-> FALSE, value |-> value, log |-> <<>>]
  ELSE LET r == applyParser(Head(ps), value)
           this == ParserCall(i, Head(ps), value, r)
       IN IF r.threw
          THEN [threw |-> TRUE, value |-> r.value, log |-> <<this>>]
          ELSE LET rest == runParsers(Tail(ps), r.value, i + 1)
               IN [rest EXCEPT !.log = <<this>> \o @]

\* "mark" appends its name to the marks of the report; "throws" throws or
\* rejects.
TransformerNames == {"mark", "throws"}

\* "fs" is ErrorParser.fsSourceLoader; "fixed" returns FixedText for every
\* frame; "throws" throws or rejects.
LoaderNames == {"fs", "fixed", "throws"}

fsSourceLoaderRaises(frame) ==
  IF frame.fileName = <<>> \/ frame.fileType # "fs" \/ frame.type = "native"
  THEN [threw |-> FALSE, found |-> FALSE, contents |-> <<>>]
  ELSE LET r == readFile(frame.fileName)
       IN [threw |-> ~r.ok, found |-> r.ok, contents |-> r.contents]

\* ErrorParser.fsSourceLoader: [threw, found, contents].
fsSourceLoader(frame) ==
  IF frame.fileName = <<>> \/ frame.fileType # "fs" \/ frame.type = "native"
  THEN [threw |-> FALSE, found |-> FALSE, contents |-> <<>>]
  ELSE LET r == readFile(frame.fileName)
       IN [threw |-> FALSE, found |-> r.ok, contents |-> r.contents]

\* Whether fsSourceLoader reaches its readFile call for the frame.
fsLoaderReads(frame) ==
  ~(frame.fileName = <<>> \/ frame.fileType # "fs" \/ frame.type = "native")

callLoaderDefaultOnly(loader, frame) == fsSourceLoader(frame)

\* The outcome of calling loader on frame: [threw, found, contents].
callLoader(loader, frame) ==
  CASE loader = "fs" -> fsSourceLoader(frame)
    [] loader = "fixed" -> [threw |-> FALSE, found |-> TRUE, contents |-> FixedText]
    [] OTHER -> [threw |-> TRUE, found |-> FALSE, contents |-> <<>>]

(***************************************************************************)
(* The state of one parse() call.                                          *)
(***************************************************************************)
CallIds == {1, 2}

NoFrame ==
  [raw |-> <<>>, fileName |-> <<>>, lineNumber |-> <<>>, type |-> "none",
   fileType |-> "none", source |-> NoSource]

NoReport ==
  [message |-> "", hint |-> "", cause |-> Undefined, raw |-> Undefined,
   frames |-> <<>>, marks |-> <<>>]

\* pc: idle, enhance (in the loop of #enhanceFrames), loading (awaiting the
\* source loader), transform (in the loop over #transformers), transforming
\* (awaiting the transformer t), done (resolved with parsedError), rejected
\* (failure says what was thrown).  parserLog and transformLog are history:
\* the calls of the pre-processors, and the invocations and completions of
\* the post-processors, in the order they happened.
IdleCall ==
  [pc |-> "idle", input |-> Undefined, source |-> Undefined,
   error |-> Undefined, rawFrames |-> <<>>, esFrames |-> <<>>,
   stackFrames |-> <<>>, pending |-> NoFrame, pendingLoader |-> "fs",
   parsedError |-> NoReport, t |-> 1, failure |-> "none",
   parserLog |-> <<>>, transformLog |-> <<>>]

RejectedAsReport(call, failure) == [call EXCEPT !.pc = "done", !.failure = failure]

\* The promise of parse rejects: something was thrown inside the method.
Rejected(call, failure) == [call EXCEPT !.pc = "rejected", !.failure = failure]

\* frame.lineNumber ?? 1
lineNumberOr1(frame) == IF frame.lineNumber = <<>> THEN 1 ELSE frame.lineNumber[1]

\* The Map #sourceFiles: a function from the file names cached to their
\* SourceFile.
cacheHas(cache, fileName) == fileName \in DOMAIN cache

cacheSet(cache, fileName, sourceFile) ==
  [k \in DOMAIN cache \cup {fileName} |->
     IF k = fileName THEN sourceFile ELSE cache[k]]

bump(counts, k) ==
  [x \in DOMAIN counts \cup {k} |->
     IF x = k
     THEN (IF k \in DOMAIN counts THEN counts[k] ELSE 0) + 1
     ELSE counts[x]]

countOf(counts, k) == IF k \in DOMAIN counts THEN counts[k] ELSE 0

(***************************************************************************)
(* Construction.                                                           *)
(***************************************************************************)
Offsets == {<<>>} \cup {<<k>> : k \in 0..MaxOffset}

Init ==
  /\ offset \in Offsets
  /\ sourceFiles = <<>>
  /\ sourceLoader = "fs"
  /\ parsers = <<>>
  /\ transformers = <<>>
  /\ calls = [c \in CallIds |-> IdleCall]
  /\ loaderCalls = <<>>
  /\ reads = <<>>
  /\ absent = {}
  /\ started = 0
  /\ probe = [op |-> "none"]

AllIdle == \A c \in CallIds : calls[c].pc = "idle"

\* The number of hooks registered so far.
hooks == Len(parsers) + Len(transformers)

(***************************************************************************)
(* useParser, useTransformer, defineSourceLoader.                          *)
(***************************************************************************)
useParser(parser) ==
  /\ parsers' = Append(parsers, parser)
  /\ UNCHANGED <<offset, sourceFiles, sourceLoader, transformers, calls,
                 loaderCalls, reads, absent, started, probe>>

useTransformer(transformer) ==
  /\ transformers' = Append(transformers, transformer)
  /\ UNCHANGED <<offset, sourceFiles, sourceLoader, parsers, calls,
                 loaderCalls, reads, absent, started, probe>>

\* defineSourceLoader starting a new cache for the new loader.
defineSourceLoaderNewCache(loader) ==
  /\ sourceLoader' = loader
  /\ sourceFiles' = <<>>
  /\ UNCHANGED <<offset, parsers, transformers, calls, loaderCalls, reads,
                 absent, started, probe>>

defineSourceLoader(loader) ==
  /\ sourceLoader' = loader
  /\ UNCHANGED <<offset, sourceFiles, parsers, transformers, calls,
                 loaderCalls, reads, absent, started, probe>>

(***************************************************************************)
(* parse(source), up to the loop of #enhanceFrames: lines 294-329.         *)
(***************************************************************************)
parseBegin(call, value) ==
  LET pre == runParsers(parsers, value, 1)
      begun == [call EXCEPT !.input = value, !.parserLog = pre.log]
      norm == normalizeError(pre.value)
      error == norm.error
      syntax == IF error.instanceOfSyntaxError
                THEN parseSyntaxError(error)
                ELSE [threw |-> FALSE, frames |-> <<>>]
      esFrames == syntax.frames \o extractFrames(error)
  IN IF pre.threw THEN Rejected(begun, "parser")
     ELSE IF norm.threw
     THEN Rejected([begun EXCEPT !.source = pre.value], "TypeError")
     ELSE IF syntax.threw
     THEN Rejected([begun EXCEPT !.source = pre.value, !.error = error],
                   "TypeError")
     ELSE [begun EXCEPT !.pc = "enhance",
                       !.source = pre.value, !.error = error,
                       !.rawFrames = esFrames,
                       !.esFrames = applyOffset(offset, esFrames),
                       !.stackFrames = <<>>]

parse(c, value) ==
  /\ calls[c].pc = "idle"
  /\ started < MaxCalls
  /\ started' = started + 1
  /\ calls' = [calls EXCEPT ![c] = parseBegin(calls[c], value)]
  /\ UNCHANGED <<offset, sourceFiles, sourceLoader, parsers, transformers,
                 loaderCalls, reads, absent, probe>>

(***************************************************************************)
(* One turn of the loop of #enhanceFrames, up to the call of the source    *)
(* loader in #getSource: lines 219-233 and 111-118.                        *)
(***************************************************************************)
toStackFrame(frame) ==
  [raw |-> frame.source, fileName |-> frame.fileName,
   lineNumber |-> frame.lineNumber, type |-> "none", fileType |-> "none",
   source |-> NoSource]

\* Lines 230-232.
classify(stackFrame, fileName) ==
  [stackFrame EXCEPT !.fileName = fileName,
                     !.type = getFrameType(fileName),
                     !.fileType = getFrameSourceType(fileName)]

pushFrameFirst(call, stackFrame) ==
  [call EXCEPT !.pc = "enhance",
               !.stackFrames = <<stackFrame>> \o call.stackFrames,
               !.pending = NoFrame]

\* stackFrames.push(stackFrame)
pushFrame(call, stackFrame) ==
  [call EXCEPT !.pc = "enhance",
               !.stackFrames = Append(call.stackFrames, stackFrame),
               !.pending = NoFrame]

\* #getSource when the file is cached: lines 112-116.
getSourceCached(call, stackFrame) ==
  LET r == sourceFileSlice(sourceFiles[stackFrame.fileName],
                           lineNumberOr1(stackFrame), FrameSourceBuffer)
  IN IF r.threw THEN Rejected(call, "Error")
     ELSE pushFrame(call, [stackFrame EXCEPT !.source = r.source])

cacheLookupAlwaysMiss(cache, fileName) == FALSE

\* this.#sourceFiles.get(frame.fileName) finds a SourceFile: lines 112-113.
cacheLookup(cache, fileName) == cacheHas(cache, fileName)

enhanceFrame(c) ==
  LET call == calls[c]
      i == Len(call.stackFrames) + 1
      frame == call.esFrames[i]
      stackFrame == toStackFrame(frame)
      normal == normalizeFileName(frame.fileName)
      classified == classify(stackFrame, normal.path)
      miss == /\ frame.fileName # <<>>
              /\ normal.ok
              /\ ~cacheLookup(sourceFiles, normal.path)
  IN /\ call.pc = "enhance"
     /\ i <= Len(call.esFrames)
     /\ calls' = [calls EXCEPT ![c] =
          IF frame.fileName = <<>> THEN pushFrame(call, stackFrame)
          ELSE IF ~normal.ok THEN Rejected(call, "TypeError")
          ELSE IF ~miss THEN getSourceCached(call, classified)
          ELSE [call EXCEPT !.pc = "loading", !.pending = classified,
                            !.pendingLoader = sourceLoader]]
     /\ loaderCalls' = IF miss THEN bump(loaderCalls, normal.path) ELSE loaderCalls
     /\ reads' = IF miss /\ sourceLoader = "fs" /\ fsLoaderReads(classified)
                 THEN bump(reads, normal.path) ELSE reads
     /\ UNCHANGED <<offset, sourceFiles, sourceLoader, parsers, transformers,
                    absent, started, probe>>

(***************************************************************************)
(* The source loader returns to #getSource: lines 118-125 and 233-236.     *)
(***************************************************************************)
\* The same, with a cache that refuses to write a name it already holds.
loaderReturnWritesOnce(c) ==
  LET call == calls[c]
      stackFrame == call.pending
      contents == callLoader(call.pendingLoader, stackFrame)
      sourceFile == loadedSourceFile(contents.contents)
      r == sourceFileSlice(sourceFile, lineNumberOr1(stackFrame), FrameSourceBuffer)
      held == cacheHas(sourceFiles, stackFrame.fileName)
  IN /\ call.pc = "loading"
     /\ calls' = [calls EXCEPT ![c] =
          IF contents.threw THEN Rejected(call, "loader")
          ELSE IF ~contents.found THEN pushFrame(call, stackFrame)
          ELSE IF r.threw \/ held THEN Rejected(call, "Error")
          ELSE pushFrame(call, [stackFrame EXCEPT !.source = r.source])]
     /\ sourceFiles' =
          IF ~contents.threw /\ contents.found /\ ~held
          THEN cacheSet(sourceFiles, stackFrame.fileName, sourceFile)
          ELSE sourceFiles
     /\ absent' =
          IF ~contents.threw /\ ~contents.found
          THEN absent \cup {stackFrame.fileName}
          ELSE absent
     /\ UNCHANGED <<offset, sourceLoader, parsers, transformers, loaderCalls,
                    reads, started, probe>>

loaderReturn(c) ==
  LET call == calls[c]
      stackFrame == call.pending
      contents == callLoader(call.pendingLoader, stackFrame)
      sourceFile == loadedSourceFile(contents.contents)
      r == sourceFileSlice(sourceFile, lineNumberOr1(stackFrame), FrameSourceBuffer)
  IN /\ call.pc = "loading"
     /\ calls' = [calls EXCEPT ![c] =
          IF contents.threw THEN Rejected(call, "loader")
          ELSE IF ~contents.found THEN pushFrame(call, stackFrame)
          ELSE IF r.threw THEN Rejected(call, "Error")
          ELSE pushFrame(call, [stackFrame EXCEPT !.source = r.source])]
     /\ sourceFiles' =
          IF ~contents.threw /\ contents.found
          THEN cacheSet(sourceFiles, stackFrame.fileName, sourceFile)
          ELSE sourceFiles
     /\ absent' =
          IF ~contents.threw /\ ~contents.found
          THEN absent \cup {stackFrame.fileName}
          ELSE absent
     /\ UNCHANGED <<offset, sourceLoader, parsers, transformers, loaderCalls,
                    reads, started, probe>>

(***************************************************************************)
(* The report is assembled, the post-processors run, parse returns:        *)
(* lines 335-355.                                                          *)
(***************************************************************************)
reportOf(error, frames) ==
  [message |-> error.message,
   hint |-> IF error.hint # "" THEN error.hint
            ELSE IF error.help # "" THEN error.help
            ELSE "",
   cause |-> error.cause,
   raw |-> error,
   frames |-> frames,
   marks |-> <<>>]

assemble(c) ==
  LET call == calls[c]
  IN /\ call.pc = "enhance"
     /\ Len(call.stackFrames) >= Len(call.esFrames)
     /\ calls' = [calls EXCEPT ![c] =
          [call EXCEPT !.pc = "transform", !.t = 1,
                       !.parsedError = reportOf(call.error, call.stackFrames)]]
     /\ UNCHANGED <<offset, sourceFiles, sourceLoader, parsers, transformers,
                    loaderCalls, reads, absent, started, probe>>

\* An entry of transformLog: ev is "invoke" or "complete"; report and error
\* are the arguments the transformer was called with.
TransformEvent(ev, call) ==
  [ev |-> ev, index |-> call.t, transformer |-> transformers[call.t],
   report |-> call.parsedError, error |-> call.error]

transformDetached(c) ==
  LET call == calls[c]
      transformer == transformers[call.t]
      invoked == [call EXCEPT !.transformLog = Append(@, TransformEvent("invoke", call))]
  IN /\ call.pc = "transform"
     /\ call.t <= Len(transformers)
     /\ calls' = [calls EXCEPT ![c] =
          IF transformer = "throws" THEN Rejected(invoked, "transformer")
          ELSE [invoked EXCEPT !.t = call.t + 1]]
     /\ UNCHANGED <<offset, sourceFiles, sourceLoader, parsers, transformers,
                    loaderCalls, reads, absent, started, probe>>

\* await transformer(parsedError, error): the transformer is invoked; it
\* throws or rejects, or parse waits for it.
transform(c) ==
  LET call == calls[c]
      transformer == transformers[call.t]
      invoked == [call EXCEPT !.transformLog = Append(@, TransformEvent("invoke", call))]
  IN /\ call.pc = "transform"
     /\ call.t <= Len(transformers)
     /\ calls' = [calls EXCEPT ![c] =
          IF transformer = "throws" THEN Rejected(invoked, "transformer")
          ELSE [invoked EXCEPT !.pc = "transforming"]]
     /\ UNCHANGED <<offset, sourceFiles, sourceLoader, parsers, transformers,
                    loaderCalls, reads, absent, started, probe>>

\* The transformer awaited completes, having put its mark on the report;
\* the loop goes to the next transformer.
transformerReturn(c) ==
  LET call == calls[c]
      marked == [call EXCEPT !.parsedError.marks = Append(@, call.t)]
  IN /\ call.pc = "transforming"
     /\ calls' = [calls EXCEPT ![c] =
          [marked EXCEPT !.pc = "transform", !.t = call.t + 1,
                         !.transformLog = Append(@, TransformEvent("complete", marked))]]
     /\ UNCHANGED <<offset, sourceFiles, sourceLoader, parsers, transformers,
                    loaderCalls, reads, absent, started, probe>>

resolve(c) ==
  LET call == calls[c]
  IN /\ call.pc = "transform"
     /\ call.t > Len(transformers)
     /\ calls' = [calls EXCEPT ![c] = [call EXCEPT !.pc = "done"]]
     /\ UNCHANGED <<offset, sourceFiles, sourceLoader, parsers, transformers,
                    loaderCalls, reads, absent, started, probe>>

\* The caller has taken the outcome of the call.
settled(c) ==
  /\ calls[c].pc \in {"done", "rejected"}
  /\ calls' = [calls EXCEPT ![c] = IdleCall]
  /\ UNCHANGED <<offset, sourceFiles, sourceLoader, parsers, transformers,
                 loaderCalls, reads, absent, started, probe>>

(***************************************************************************)
(* Sequential use of one parser: no operation begins while a parse call    *)
(* is in flight.                                                           *)
(***************************************************************************)
Next ==
  \/ \E value \in Values : AllIdle /\ parse(1, value)
  \/ enhanceFrame(1)
  \/ loaderReturn(1)
  \/ assemble(1)
  \/ transform(1)
  \/ transformerReturn(1)
  \/ resolve(1)
  \/ settled(1)
  \/ \E parser \in ParserNames :
       AllIdle /\ hooks < MaxHooks /\ useParser(parser)
  \/ \E transformer \in TransformerNames :
       AllIdle /\ hooks < MaxHooks /\ useTransformer(transformer)
  \/ \E loader \in LoaderNames : AllIdle /\ defineSourceLoader(loader)

Spec == Init /\ [][Next]_vars

(***************************************************************************)
(* Sequential use of a parser with pipelines of up to MaxPipeline          *)
(* pre-processors and MaxPipeline post-processors, on a few values.        *)
(***************************************************************************)
PipelineValues == {EmptyObject, Primitive("boolean"), ErrorOf(<<fA, fMissing>>)}

NextPipeline ==
  \/ \E value \in PipelineValues : AllIdle /\ parse(1, value)
  \/ enhanceFrame(1)
  \/ loaderReturn(1)
  \/ assemble(1)
  \/ transform(1)
  \/ transformerReturn(1)
  \/ resolve(1)
  \/ settled(1)
  \/ \E parser \in ParserNames :
       AllIdle /\ Len(parsers) < MaxPipeline /\ useParser(parser)
  \/ \E transformer \in TransformerNames :
       AllIdle /\ Len(transformers) < MaxPipeline /\ useTransformer(transformer)

SpecPipeline == Init /\ [][NextPipeline]_vars

(***************************************************************************)
(* Overlapping use: two parse calls on one parser, each begun whenever its *)
(* caller likes and continued whenever what it awaits has settled.  The    *)
(* loader is chosen before the first call.                                 *)
(***************************************************************************)
OverlapValues ==
  {ErrorOf(<<fA>>), ErrorOf(<<fA9, fA>>), ErrorOf(<<fMissing, fUrlA>>)}

OverlapLoaders == {"fs", "fixed"}

NextOverlap ==
  \/ \E c \in CallIds, value \in OverlapValues : parse(c, value)
  \/ \E c \in CallIds : enhanceFrame(c)
  \/ \E c \in CallIds : loaderReturn(c)
  \/ \E c \in CallIds : assemble(c)
  \/ \E c \in CallIds : resolve(c)
  \/ \E c \in CallIds : settled(c)
  \/ \E loader \in OverlapLoaders : started = 0 /\ defineSourceLoader(loader)

SpecOverlap == Init /\ [][NextOverlap]_vars

(***************************************************************************)
(* Direct calls of the classifier, on the file names built from the        *)
(* markers and from texts that come close to them.                         *)
(***************************************************************************)
NameHeads ==
  { <<>>, <<"/">>, HttpPrefix, HttpsPrefix, <<"h", "t", "t", "p", ":", "/">> }

NameMiddles ==
  { <<>>, NodeMarker, ExtMarker, bunNativeIdentifier, NodeModulesMarker,
    <<"n", "o", "d", "e", "_", "m", "o", "d", "u", "l", "e", "s">>,
    <<"n", "o", "d", "e">> }

NameTails == { <<>>, <<"x">>, NodeModulesMarker, ExtMarker, <<"/">> \o HttpsPrefix }

FileNames ==
  { h \o m \o t : h \in NameHeads, m \in NameMiddles, t \in NameTails } \ { <<>> }

classifyName(fileName) ==
  /\ probe' = [op |-> "classify", fileName |-> fileName,
               type |-> getFrameType(fileName),
               fileType |-> getFrameSourceType(fileName)]
  /\ UNCHANGED parserVars

NextClassify == \E fileName \in FileNames : classifyName(fileName)

SpecClassify == Init /\ [][NextClassify]_vars

(***************************************************************************)
(* Direct calls of #parseSyntaxError, on SyntaxErrors whose stack begins   *)
(* with a line built from a file part, a colon or none, and a last part.   *)
(***************************************************************************)
LineFiles ==
  { <<>>, <<"/", "a">>, <<"D", ":", "\\", "y">>, <<":">>, <<"/", "a", ":">>,
    <<"/", "t", "m", "p", "/", "b", "a", "d", ".", "j", "s">> }

LineColons == { <<>>, <<":">> }

LineLasts ==
  { <<>>, <<"7">>, <<"1", "2">>, <<"0">>, <<"x">>, <<"7", "x">>, <<"0", "7">>,
    <<"/", "b">> }

FirstLines ==
  { f \o c \o n : f \in LineFiles, c \in LineColons, n \in LineLasts }

parseSyntaxErrorOf(line1) ==
  /\ probe' = [op |-> "parseSyntaxError", line1 |-> line1,
               result |-> parseSyntaxError(SyntaxErrorAt(line1, <<>>))]
  /\ UNCHANGED parserVars

NextSyntax == \E line1 \in FirstLines : parseSyntaxErrorOf(line1)

SpecSyntax == Init /\ [][NextSyntax]_vars

(***************************************************************************)
(* Direct calls of SourceFile.slice on files of 1 to MaxLines lines, the   *)
(* i-th line being the i-th letter, ended by "\n" or by "\r\n".            *)
(***************************************************************************)
Letters ==
  <<"a", "b", "c", "d", "e", "f", "g", "h", "i", "j", "k", "l", "m", "n",
    "o", "p", "q", "r", "s", "t", "u", "v", "w", "x", "y", "z">>

LF == <<"\n">>
CRLF == <<"\r", "\n">>

\* The text of the lines from to contentSize, separated by eol.
RECURSIVE textOfLines(_, _, _)
textOfLines(from, contentSize, eol) ==
  IF from > contentSize THEN <<>>
  ELSE IF from = contentSize THEN <<Letters[from]>>
  ELSE <<Letters[from]>> \o eol \o textOfLines(from + 1, contentSize, eol)

BufferSizes == 0..MaxBuffer

sliceOf(contentSize, eol, lineNumber, bufferSize) ==
  /\ probe' = [op |-> "slice", contentSize |-> contentSize, eol |-> eol,
               lineNumber |-> lineNumber, bufferSize |-> bufferSize,
               result |-> sliceContents(TRUE, textOfLines(1, contentSize, eol),
                                        lineNumber, bufferSize)]
  /\ UNCHANGED parserVars

\* One call in a behaviour: the calls do not depend on one another.
NextSlice ==
  \E contentSize \in 1..MaxLines, eol \in {LF, CRLF},
     lineNumber \in (-1)..(MaxLines + 2), bufferSize \in BufferSizes :
    probe.op = "none" /\ sliceOf(contentSize, eol, lineNumber, bufferSize)

SpecSlice == Init /\ [][NextSlice]_vars

(***************************************************************************)
(* One SourceFile object under direct use.  probe is then                  *)
(*   [op |-> "SourceFile", filePath, supplied, given, sourceFile, pc,      *)
(*    loadCalls, loads, diskReads, returned, last]                         *)
(* supplied and given are the constructor's contents option, pc is         *)
(* "reading" while a load() awaits readFile, loadCalls and loads count the *)
(* load() calls begun and completed, diskReads the readFile calls,         *)
(* returned lists what the load() calls returned, and last is the last     *)
(* slice call with the two load counters at the time of the call.          *)
(***************************************************************************)
NoSlice ==
  [called |-> FALSE, lineNumber |-> 0, bufferSize |-> 0, threw |-> FALSE,
   source |-> NoSource, loadCalls |-> 0, loads |-> 0]

\* The contents option of the constructor: left out or undefined, '', text.
ContentsOptions ==
  { [supplied |-> FALSE, contents |-> <<>>],
    [supplied |-> TRUE, contents |-> <<>>],
    [supplied |-> TRUE, contents |-> FixedText],
    [supplied |-> TRUE, contents |-> textOfLines(1, 4, CRLF)] }

FilePaths == {FileA, FileMissing, FileEmpty}
ObjectLines == {-1, 2, MaxLines + 2}
ObjectBuffers == {0, 7, 10}

\* What load() returns: #contents, undefined while hasContents is FALSE.
contentsOf(sourceFile) ==
  [hasContents |-> sourceFile.hasContents, contents |-> sourceFile.contents]

\* The end of load(): #loaded = true; return #contents.
loadReturn(object, sourceFile) ==
  /\ probe' = [object EXCEPT !.sourceFile = [sourceFile EXCEPT !.loaded = TRUE],
                            !.pc = "ready",
                            !.loads = @ + 1,
                            !.returned = Append(@, contentsOf(sourceFile))]
  /\ UNCHANGED parserVars

construct(filePath, options) ==
  /\ probe.op = "none"
  /\ probe' = [op |-> "SourceFile", filePath |-> filePath,
               supplied |-> options.supplied, given |-> options.contents,
               sourceFile |-> newSourceFile(options.supplied, options.contents),
               pc |-> "ready", loadCalls |-> 0, loads |-> 0, diskReads |-> 0,
               returned |-> <<>>, last |-> NoSlice]
  /\ UNCHANGED parserVars

\* load() up to its await, or to its end when #contents is defined.
load ==
  /\ probe.op = "SourceFile"
  /\ probe.pc = "ready"
  /\ probe.loadCalls < MaxLoads
  /\ IF ~probe.sourceFile.hasContents
     THEN /\ probe' = [probe EXCEPT !.pc = "reading", !.loadCalls = @ + 1,
                                    !.diskReads = @ + 1]
          /\ UNCHANGED parserVars
     ELSE loadReturn([probe EXCEPT !.loadCalls = @ + 1], probe.sourceFile)

\* readFile settles: its text becomes #contents, its failure is logged.
readFileSettled ==
  /\ probe.op = "SourceFile"
  /\ probe.pc = "reading"
  /\ LET r == readFile(probe.filePath)
     IN loadReturn(probe,
                   IF r.ok
                   THEN [probe.sourceFile EXCEPT !.hasContents = TRUE,
                                                 !.contents = r.contents]
                   ELSE probe.sourceFile)

slice(lineNumber, bufferSize) ==
  /\ probe.op = "SourceFile"
  /\ LET r == sourceFileSlice(probe.sourceFile, lineNumber, bufferSize)
     IN probe' = [probe EXCEPT !.last =
                    [called |-> TRUE, lineNumber |-> lineNumber,
                     bufferSize |-> bufferSize, threw |-> r.threw,
                     source |-> r.source, loadCalls |-> probe.loadCalls,
                     loads |-> probe.loads]]
  /\ UNCHANGED parserVars

NextSourceFile ==
  \/ NextSlice
  \/ \E filePath \in FilePaths, options \in ContentsOptions :
       construct(filePath, options)
  \/ load
  \/ readFileSettled
  \/ \E lineNumber \in ObjectLines, bufferSize \in ObjectBuffers :
       slice(lineNumber, bufferSize)

SpecSourceFile == Init /\ [][NextSourceFile]_vars

(***************************************************************************)
(* Properties.                                                             *)
(***************************************************************************)
Settled(c) == calls[c].pc = "done"

\* The value normalized by the call does not expose both a message and a
\* stack.
NotErrorLike(c) ==
  ~(isObject(calls[c].source)
      /\ (calls[c].source.instanceOfError \/ isErrorShaped(calls[c].source)))

FramesOf(c) == calls[c].parsedError.frames

\* C1: parse resolves for every input value; it rejects only with the
\* failure of a pre-processor, of a post-processor or of a source loader.
C1_RejectsOnlyOnExtensionFailure ==
  \A c \in CallIds :
    calls[c].pc = "rejected"
      => calls[c].failure \in {"parser", "transformer", "loader"}

\* C2: under sequential use, once a file name is cached (the loader has
\* returned content for it), no step invokes the loader, or the read of
\* the default loader, for that file name again.
C2_CachedNameIsNotLoadedAgain ==
  [][\A k \in DOMAIN sourceFiles :
       /\ countOf(loaderCalls', k) = countOf(loaderCalls, k)
       /\ countOf(reads', k) = countOf(reads, k)
       /\ k \in DOMAIN sourceFiles']_vars

\* A second parse call has reported a frame of /a with its source, and the
\* loader has been invoked for /a once.
C2_Witness ==
  /\ started = 2
  /\ Settled(1)
  /\ \E i \in 1..Len(FramesOf(1)) :
       /\ FramesOf(1)[i].fileName = FileA
       /\ FramesOf(1)[i].source.present
  /\ countOf(loaderCalls, FileA) = 1
  /\ countOf(reads, FileA) = 1

\* C3: once a load of a file name has yielded absence, no step invokes the
\* loader for that file name again, and no frame of it is given a source.
C3_AbsenceIsStored ==
  [][\A k \in absent :
       /\ countOf(loaderCalls', k) = countOf(loaderCalls, k)
       /\ \A c \in CallIds :
            (/\ Len(calls'[c].stackFrames) = Len(calls[c].stackFrames) + 1
             /\ calls'[c].stackFrames[Len(calls'[c].stackFrames)].fileName = k)
              => ~calls'[c].stackFrames[Len(calls'[c].stackFrames)].source.present]_vars

\* C4: a frame carries a source only if its fileType is fs and its type is
\* not native; a frame without a file name carries no type, no fileType and
\* no source.
C4_SourceOnlyForFsNonNative ==
  \A c \in CallIds : \A i \in 1..Len(calls[c].stackFrames) :
    LET frame == calls[c].stackFrames[i]
    IN /\ frame.source.present => (frame.fileType = "fs" /\ frame.type # "native")
       /\ frame.fileName = <<>>
            => (frame.type = "none" /\ frame.fileType = "none"
                  /\ ~frame.source.present)

C6_CauseIsTheInput ==
  \A c \in CallIds :
    (Settled(c) /\ NotErrorLike(c))
      => calls[c].parsedError.cause = calls[c].source

\* C7: the raw field of a report is an Error object, and it is the value
\* given when that value is an Error.
C7_RawIsAnError ==
  \A c \in CallIds :
    Settled(c)
      => /\ calls[c].parsedError.raw.instanceOfError
         /\ (isObject(calls[c].source) /\ calls[c].source.instanceOfError)
              => calls[c].parsedError.raw = calls[c].source

\* C8: the frames of a report are the frames left after the offset, one
\* for one and in their order, while they are enhanced and when they are
\* reported.
C8_FramesKeepExtractionOrder ==
  \A c \in CallIds :
    LET call == calls[c]
    IN /\ call.pc \in {"enhance", "loading", "transform", "done"}
            => /\ Len(call.stackFrames) <= Len(call.esFrames)
               /\ \A i \in 1..Len(call.stackFrames) :
                    /\ call.stackFrames[i].raw = call.esFrames[i].source
                    /\ call.stackFrames[i].lineNumber = call.esFrames[i].lineNumber
       /\ call.pc \in {"transform", "done"}
            => /\ Len(call.parsedError.frames) = Len(call.esFrames)
               /\ call.parsedError.frames = call.stackFrames

\* A report of three frames: one without a file name, one whose source was
\* loaded, one whose file is missing.
C8_Witness ==
  \E c \in CallIds :
    /\ Settled(c)
    /\ Len(FramesOf(c)) = 3
    /\ FramesOf(c)[1].fileName = <<>>
    /\ FramesOf(c)[2].source.present
    /\ FramesOf(c)[3].fileName = FileMissing
    /\ ~FramesOf(c)[3].source.present

\* The frames of s after its first k.
Drop(k, s) == [i \in 1..(IF Len(s) > k THEN Len(s) - k ELSE 0) |-> s[i + k]]

\* The frame that a parser with an empty cache reports for a frame of the
\* extractor.
referenceFrame(frame, loader) ==
  IF frame.fileName = <<>> THEN toStackFrame(frame)
  ELSE LET classified == classify(toStackFrame(frame),
                                  normalizeFileName(frame.fileName).path)
           contents == callLoader(loader, classified)
       IN [classified EXCEPT !.source =
             IF contents.found
             THEN sliceContents(TRUE, contents.contents,
                                lineNumberOr1(classified), FrameSourceBuffer)
             ELSE NoSource]

\* C9: the frames reported with offset k are the frames reported without
\* offset, less the first k: none when k is at least their number, all of
\* them when the offset is unset or 0.  The sources are compared in the
\* first call of a parser, where the cache holds nothing from before.
C9_OffsetDropsLeadingFrames ==
  \A c \in CallIds :
    Settled(c) =>
      LET k == IF offset = <<>> THEN 0 ELSE offset[1]
          expected == Drop(k, calls[c].rawFrames)
      IN /\ Len(FramesOf(c)) = Len(expected)
         /\ \A i \in 1..Len(expected) :
              LET reference == referenceFrame(expected[i], sourceLoader)
              IN /\ FramesOf(c)[i].raw = reference.raw
                 /\ FramesOf(c)[i].fileName = reference.fileName
                 /\ FramesOf(c)[i].lineNumber = reference.lineNumber
                 /\ FramesOf(c)[i].type = reference.type
                 /\ FramesOf(c)[i].fileType = reference.fileType
                 /\ started = 1 => FramesOf(c)[i] = reference

\* A parser with offset 2 has reported the third of three frames.
C9_Witness ==
  \E c \in CallIds :
    /\ Settled(c)
    /\ offset = <<2>>
    /\ Len(calls[c].rawFrames) = 3
    /\ Len(FramesOf(c)) = 1
    /\ FramesOf(c)[1].raw = calls[c].rawFrames[3].source

\* p occurs in s.
occurs(s, p) == \E i \in 1..Len(s) : \E j \in i..Len(s) : SubSeq(s, i, j) = p

\* s begins with p.
begins(s, p) == Len(s) >= Len(p) /\ \A i \in 1..Len(p) : s[i] = p[i]

\* C10: the type of a file name is native if "node:" or "ext:" occurs in it
\* or it is "native", else module if "node_modules/" occurs in it, else app;
\* its fileType is http if it begins with "http://", https if it begins
\* with "https://", else fs, whatever the type.
C10_Classification ==
  probe.op = "classify" =>
    LET name == probe.fileName
        native == \/ occurs(name, NodeMarker)
                  \/ occurs(name, ExtMarker)
                  \/ name = bunNativeIdentifier
    IN /\ probe.type = (IF native THEN "native"
                        ELSE IF occurs(name, NodeModulesMarker) THEN "module"
                        ELSE "app")
       /\ probe.fileType = (IF begins(name, HttpPrefix) THEN "http"
                            ELSE IF begins(name, HttpsPrefix) THEN "https"
                            ELSE "fs")

\* An https file name in which both "node:" and "node_modules/" occur.
C10_Witness ==
  /\ probe.op = "classify"
  /\ probe.fileName = HttpsPrefix \o NodeMarker \o NodeModulesMarker
  /\ probe.type = "native"
  /\ probe.fileType = "https"

\* name holds no backslash.
noBackslash(name) == \A i \in 1..Len(name) : name[i] # "\\"

\* name is what original becomes when each of its backslashes is replaced
\* by a forward slash.
slashed(original, name) ==
  /\ Len(name) = Len(original)
  /\ \A i \in 1..Len(name) :
       name[i] = (IF original[i] = "\\" THEN "/" ELSE original[i])

\* name is the normalized form of the identifier original.
normalizedFrom(original, name) ==
  IF begins(original, FilePrefix)
  THEN /\ begins(name, <<"/">>)
       /\ noBackslash(name)
       /\ original = FilePrefix \o <<"/", "/">> \o name
  ELSE IF begins(original, ExtendedLengthPrefix)
  THEN name = original
  ELSE slashed(original, name)

\* C11: every frame with a file name is reported under its normalized
\* identifier (a file: URL resolved to a path, backslashes turned into
\* forward slashes unless the identifier starts with the extended-length
\* marker); its type and fileType are those of the normalized identifier,
\* and the cache is keyed by normalized identifiers only.
C11_NormalizedBeforeUse ==
  /\ \A c \in CallIds : \A i \in 1..Len(calls[c].stackFrames) :
       LET frame == calls[c].stackFrames[i]
           original == calls[c].esFrames[i].fileName
       IN original # <<>> =>
            /\ normalizedFrom(original, frame.fileName)
            /\ frame.type = getFrameType(frame.fileName)
            /\ frame.fileType = getFrameSourceType(frame.fileName)
  /\ \A c \in CallIds :
       calls[c].pc = "loading" =>
         normalizedFrom(calls[c].esFrames[Len(calls[c].stackFrames) + 1].fileName,
                        calls[c].pending.fileName)
  /\ \A k \in DOMAIN sourceFiles :
       /\ ~begins(k, FilePrefix)
       /\ begins(k, ExtendedLengthPrefix) \/ noBackslash(k)

\* A report of "\node_modules\a" as the module "/node_modules/a" and of
\* the extended-length path as an app frame under its own text, both cached
\* under the reported names, and "file:///a" cached as "/a".
C11_Witness ==
  \E c \in CallIds :
    /\ Settled(c)
    /\ Len(FramesOf(c)) = 2
    /\ calls[c].esFrames = <<fWin, fExt>>
    /\ FramesOf(c)[1].fileName = replaceBackslashes(FileWin)
    /\ FramesOf(c)[1].type = "module"
    /\ FramesOf(c)[2].fileName = FileExt
    /\ FramesOf(c)[2].type = "app"
    /\ {replaceBackslashes(FileWin), FileExt, FileA} \subseteq DOMAIN sourceFiles
    /\ FileUrlA \notin DOMAIN sourceFiles

\* The call is awaiting the loader named for a frame the default loader
\* would read.
Awaiting(c, loader) ==
  /\ calls[c].pc = "loading"
  /\ calls[c].pendingLoader = loader
  /\ calls[c].pending.fileType = "fs"
  /\ calls[c].pending.type # "native"

\* C12: when the default loader cannot read the file of a frame, the call
\* goes on (it is not rejected) and the frame is reported with its
\* fileName, lineNumber, type and fileType and without a source.
C12_UnreadableFileGivesNoSource ==
  [][\A c \in CallIds :
       (Awaiting(c, "fs") /\ ~readFile(calls[c].pending.fileName).ok)
         => LET i == Len(calls[c].stackFrames) + 1
                frame == calls'[c].stackFrames[i]
            IN /\ calls'[c].pc = "enhance"
               /\ Len(calls'[c].stackFrames) = i
               /\ frame.fileName = calls[c].pending.fileName
               /\ frame.fileName # <<>>
               /\ frame.lineNumber = calls[c].esFrames[i].lineNumber
               /\ frame.type \in {"app", "module"}
               /\ frame.fileType = "fs"
               /\ ~frame.source.present]_vars

\* The first call of a parser with the default loader has reported the
\* frame of the missing file /m, after one failed read.
C12_Witness ==
  \E c \in CallIds :
    /\ Settled(c)
    /\ started = 1
    /\ sourceLoader = "fs"
    /\ countOf(reads, FileMissing) = 1
    /\ Len(FramesOf(c)) = 3
    /\ FramesOf(c)[3].fileName = FileMissing
    /\ FramesOf(c)[3].lineNumber = <<1>>
    /\ FramesOf(c)[3].type = "app"
    /\ FramesOf(c)[3].fileType = "fs"
    /\ ~FramesOf(c)[3].source.present

\* The window of eleven lines over "X\nY\nZ": the three lines, numbered.
FixedWindow ==
  Chunks(<<[chunk |-> <<"X">>, lineNumber |-> 1],
           [chunk |-> <<"Y">>, lineNumber |-> 2],
           [chunk |-> <<"Z">>, lineNumber |-> 3]>>)

\* C13: with the custom loader that returns "X\nY\nZ" in place, a frame of
\* fileType fs that is not native and not cached gets the window of that
\* text as its source, the call goes on, and no read of the default loader
\* is made.
C13_CustomLoaderSuppliesTheSource ==
  [][/\ \A c \in CallIds :
          Awaiting(c, "fixed")
            => LET i == Len(calls[c].stackFrames) + 1
               IN /\ calls'[c].pc = "enhance"
                  /\ Len(calls'[c].stackFrames) = i
                  /\ calls'[c].stackFrames[i].fileName = calls[c].pending.fileName
                  /\ calls'[c].stackFrames[i].source = FixedWindow
                  /\ reads' = reads
     /\ sourceLoader # "fs" => reads' = reads]_vars

\* With the custom loader, the frame of the existing file /a, whose real
\* text has twelve lines, is reported with the window of "X\nY\nZ", and
\* nothing was read.
C13_Witness ==
  \E c \in CallIds :
    /\ Settled(c)
    /\ sourceLoader = "fixed"
    /\ Len(FramesOf(c)) = 1
    /\ FramesOf(c)[1].fileName = FileA
    /\ FramesOf(c)[1].source = FixedWindow
    /\ countOf(reads, FileA) = 0
    /\ countOf(loaderCalls, FileA) = 1

\* What the pre-processor "promiseToError" makes of a Promise.
PromiseError == [ErrorOf(<<fA>>) EXCEPT !.message = "Promise cannot be thrown"]

\* C14: the pre-processors are called in registration order before the
\* value is normalized: the first receives the value given to parse, each
\* later one what the one before returned, and the value normalized is what
\* the last one returned; without pre-processors it is the value given.
C14_PreProcessorsFoldInOrder ==
  \A c \in CallIds :
    LET call == calls[c]
        log == call.parserLog
    IN call.pc # "idle" =>
         /\ Len(log) <= Len(parsers)
         /\ \A j \in 1..Len(log) :
              /\ log[j].index = j
              /\ log[j].parser = parsers[j]
              /\ log[j].received = (IF j = 1 THEN call.input ELSE log[j - 1].returned)
              /\ j < Len(log) => ~log[j].threw
              /\ (log[j].parser = "promiseToError" /\ log[j].received = EmptyObject)
                   => log[j].returned = PromiseError
              /\ (log[j].parser = "promiseToError" /\ log[j].received # EmptyObject)
                   => log[j].returned = log[j].received
         /\ ~(call.pc = "rejected" /\ call.failure = "parser")
              => /\ Len(log) = Len(parsers)
                 /\ call.source = (IF log = <<>> THEN call.input
                                    ELSE log[Len(log)].returned)
                 /\ call.pc # "rejected"
                      => call.error = normalizeError(call.source).error

\* Two pre-processors are registered and a Promise was given: the second
\* received the Error the first made of it, and that Error was reported.
C14_Witness ==
  \E c \in CallIds :
    /\ Settled(c)
    /\ Len(parsers) = 2
    /\ calls[c].input = EmptyObject
    /\ Len(calls[c].parserLog) = 2
    /\ calls[c].parserLog[2].received = PromiseError
    /\ calls[c].parsedError.message = "Promise cannot be thrown"

\* The marks 1..n.
marksTo(n) == [i \in 1..n |-> i]

\* C15: the post-processors are invoked in registration order, after every
\* frame has been enhanced and the report assembled, each only when the one
\* before has completed; each receives the report as mutated so far and the
\* normalized error, and the report returned carries all their mutations.
C15_PostProcessorsRunOneAtATime ==
  \A c \in CallIds :
    LET call == calls[c]
        log == call.transformLog
    IN /\ call.pc \in {"idle", "enhance", "loading"} => log = <<>>
       /\ \A j \in 1..Len(log) :
            LET i == (j + 1) \div 2
            IN /\ i <= Len(transformers)
               /\ log[j].index = i
               /\ log[j].transformer = transformers[i]
               /\ log[j].ev = (IF j % 2 = 1 THEN "invoke" ELSE "complete")
               /\ log[j].error = call.error
               /\ log[j].report.frames = call.stackFrames
               /\ Len(call.stackFrames) = Len(call.esFrames)
               /\ log[j].report.message = call.error.message
               /\ log[j].report.marks = marksTo(IF j % 2 = 1 THEN i - 1 ELSE i)
       /\ call.pc = "done"
            => /\ Len(log) = 2 * Len(transformers)
               /\ call.parsedError.marks = marksTo(Len(transformers))
               /\ call.parsedError.frames = call.stackFrames

\* Two post-processors have run on a report of two frames, and the report
\* returned carries the mark of the first and then that of the second.
C15_Witness ==
  \E c \in CallIds :
    /\ Settled(c)
    /\ Len(transformers) = 2
    /\ Len(FramesOf(c)) = 2
    /\ Len(calls[c].transformLog) = 4
    /\ calls[c].parsedError.marks = <<1, 2>>

\* The call has been failed by a pre-processor that threw.
failedByParser(call) == \E j \in 1..Len(call.parserLog) : call.parserLog[j].threw

\* The call has been failed by a post-processor that threw or rejected.
failedByTransformer(call) ==
  /\ call.transformLog # <<>>
  /\ call.transformLog[Len(call.transformLog)].ev = "invoke"
  /\ call.transformLog[Len(call.transformLog)].transformer = "throws"

\* C16: when a pre-processor throws, or a post-processor throws or
\* rejects, parse rejects with that failure: nothing runs after it, and
\* the call never turns into one that returned a report.
C16_HookFailurePropagates ==
  /\ [](\A c \in CallIds :
         /\ failedByParser(calls[c])
              => /\ calls[c].pc = "rejected"
                 /\ calls[c].failure = "parser"
                 /\ calls[c].parsedError = NoReport
                 /\ calls[c].stackFrames = <<>>
                 /\ calls[c].transformLog = <<>>
         /\ failedByTransformer(calls[c])
              => /\ calls[c].pc = "rejected"
                 /\ calls[c].failure = "transformer"
         /\ (calls[c].pc = "rejected" /\ calls[c].failure = "parser")
              => failedByParser(calls[c])
         /\ (calls[c].pc = "rejected" /\ calls[c].failure = "transformer")
              => failedByTransformer(calls[c]))
  /\ [][\A c \in CallIds :
         calls[c].pc = "rejected"
           => \/ calls'[c] = calls[c]
              \/ calls'[c] = IdleCall]_vars

\* The second of two post-processors threw after the first had completed:
\* the call is rejected, though a report had been assembled and marked.
C16_Witness ==
  \E c \in CallIds :
    /\ calls[c].pc = "rejected"
    /\ calls[c].failure = "transformer"
    /\ transformers = <<"mark", "throws">>
    /\ Len(calls[c].transformLog) = 3
    /\ calls[c].parsedError.marks = <<1>>

\* The position of the last ":" of line, or 0.
lastColon(line) ==
  IF \E i \in 1..Len(line) : line[i] = ":"
  THEN CHOOSE i \in 1..Len(line) :
         /\ line[i] = ":"
         /\ \A j \in (i + 1)..Len(line) : line[j] # ":"
  ELSE 0

\* token is written as an integer: one digit or more, and nothing else.
isInteger(token) ==
  /\ token # <<>>
  /\ \A i \in 1..Len(token) : token[i] \in Digits

\* C17: the synthetic frame of a syntax error comes from the first line of
\* the stack: what follows its last ":" is the line number, what precedes
\* it is the file identifier; no frame is made when what follows the last
\* ":" is not written as an integer or the file identifier is empty.
C17_SyntheticFrameFromFirstLine ==
  probe.op = "parseSyntaxError" =>
    LET line == probe.line1
        colon == lastColon(line)
        file == SubSeq(line, 1, colon - 1)
        last == SubSeq(line, colon + 1, Len(line))
    IN /\ ~probe.result.threw
       /\ probe.result.frames =
            (IF isInteger(last) /\ file # <<>>
             THEN <<ESFrame(file, <<decimalValue(last)>>, line)>>
             ELSE <<>>)

\* C18: for a syntax error the raw frames are the synthetic frame, if one
\* was derived, followed by the frames of the general extractor in their
\* order, and the frames enhanced are these less the first offset ones.
C18_SyntheticFrameComesFirst ==
  \A c \in CallIds :
    LET call == calls[c]
        synthetic == parseSyntaxError(call.error).frames
        k == IF offset = <<>> THEN 0 ELSE offset[1]
    IN (call.pc \notin {"idle", "rejected"} /\ call.error.instanceOfSyntaxError)
         => /\ Len(synthetic) <= 1
            /\ call.rawFrames = synthetic \o call.error.stack.frames
            /\ call.esFrames = Drop(k, call.rawFrames)

\* The report of a SyntaxError at "/a:3" whose stack holds one native
\* frame: the frame of /a, line 3, with its source, then the native frame.
C18_Witness ==
  \E c \in CallIds :
    /\ Settled(c)
    /\ calls[c].error.instanceOfSyntaxError
    /\ Len(FramesOf(c)) = 2
    /\ FramesOf(c)[1].fileName = FileA
    /\ FramesOf(c)[1].lineNumber = <<3>>
    /\ FramesOf(c)[1].source.present
    /\ FramesOf(c)[2].type = "native"
    /\ FramesOf(c)[2].raw = fNative.source

\* The chunks of the lines from..to of the probed file, each with its
\* number and its text.
linesFromTo(from, to) ==
  [i \in 1..(to - from + 1) |->
     [chunk |-> <<Letters[from + i - 1]>>, lineNumber |-> from + i - 1]]

\* C19: with the window size 11, the window over a non-empty file of C
\* lines has exactly 11 chunks when C >= 11 and is the whole file, from
\* line 1, when C < 11, whatever line is requested.
C19_WindowLength ==
  (probe.op = "slice" /\ probe.bufferSize = FrameSourceBuffer) =>
    LET W == FrameSourceBuffer
        C == probe.contentSize
    IN /\ probe.result.present
       /\ C >= W => Len(probe.result.chunks) = W
       /\ C < W => probe.result.chunks = linesFromTo(1, C)

\* The last line of a file of twelve lines was requested: eleven chunks.
C19_Witness ==
  /\ probe.op = "slice"
  /\ probe.bufferSize = FrameSourceBuffer
  /\ probe.contentSize = 12
  /\ probe.lineNumber = 12
  /\ Len(probe.result.chunks) = 11

\* C20: with half = 5 and a file of C >= 11 lines, the window for line L
\* is the lines L-5..L+5 when 5 < L <= C-5, the lines 1..11 when L <= 6
\* and the lines C-10..C when L >= C-5; each chunk carries the number of
\* its line in the file and the text of that line.
C20_WindowPosition ==
  (probe.op = "slice" /\ probe.bufferSize = FrameSourceBuffer
     /\ probe.contentSize >= FrameSourceBuffer) =>
    LET W == FrameSourceBuffer
        half == 5
        C == probe.contentSize
        L == probe.lineNumber
        chunks == probe.result.chunks
    IN /\ (half < L /\ L <= C - half) => chunks = linesFromTo(L - half, L + half)
       /\ L <= half + 1 => chunks = linesFromTo(1, W)
       /\ L >= C - half => chunks = linesFromTo(C - W + 1, C)

\* Line 7 of a file of thirteen lines ended by "\r\n" was requested: the
\* window is the lines 2 to 12, the first chunk being line 2, "b".
C20_Witness ==
  /\ probe.op = "slice"
  /\ probe.bufferSize = FrameSourceBuffer
  /\ probe.contentSize = 13
  /\ probe.eol = CRLF
  /\ probe.lineNumber = 7
  /\ Len(probe.result.chunks) = 11
  /\ probe.result.chunks[1] = [chunk |-> <<"b">>, lineNumber |-> 2]
  /\ probe.result.chunks[11] = [chunk |-> <<"l">>, lineNumber |-> 12]

\* C25: for a buffer size B >= 1, slice returns exactly B chunks on a file
\* of at least B lines and no more than B chunks on a shorter file.
C25_WindowHasBufferSizeChunks ==
  (probe.op = "slice" /\ probe.bufferSize >= 1) =>
    LET B == probe.bufferSize
        C == probe.contentSize
    IN /\ probe.result.present
       /\ C >= B => Len(probe.result.chunks) = B
       /\ C < B => Len(probe.result.chunks) <= B

\* The contents a SourceFile has to show: those given to the constructor,
\* else those of the file on disk; <<>> when there are none.
contentToShow ==
  IF probe.supplied THEN probe.given
  ELSE IF readFile(probe.filePath).ok THEN readFile(probe.filePath).contents
  ELSE <<>>

C24_FileIsReadAtMostOnce ==
  probe.op = "SourceFile" =>
    /\ probe.diskReads <= 1
    /\ probe.supplied => probe.diskReads = 0
    /\ \A i, j \in 1..Len(probe.returned) :
         probe.returned[i] = probe.returned[j]

\* The next frame of call c names a file that is in the cache.
NextFrameIsCached(c) ==
  LET call == calls[c]
      i == Len(call.stackFrames) + 1
  IN /\ call.pc = "enhance"
     /\ i <= Len(call.esFrames)
     /\ call.esFrames[i].fileName # <<>>
     /\ normalizeFileName(call.esFrames[i].fileName).ok
     /\ normalizeFileName(call.esFrames[i].fileName).path \in DOMAIN sourceFiles

\* C26: under sequential use the cache only grows: it is empty at
\* construction, no step removes or changes an entry, and a frame whose
\* file is in the cache gets the window of the cached contents without a
\* loader call, whatever loader is defined by then.
C26_CacheOnlyGrows ==
  /\ sourceFiles = <<>>
  /\ [][/\ \A k \in DOMAIN sourceFiles :
             k \in DOMAIN sourceFiles' /\ sourceFiles'[k] = sourceFiles[k]
        /\ \A c \in CallIds :
             NextFrameIsCached(c) =>
               LET i == Len(calls[c].stackFrames) + 1
                   frame == calls[c].esFrames[i]
                   path == normalizeFileName(frame.fileName).path
               IN /\ loaderCalls' = loaderCalls
                  /\ Len(calls'[c].stackFrames) = i
                  /\ calls'[c].stackFrames[i].source =
                       sliceContents(TRUE, sourceFiles[path].contents,
                                     lineNumberOr1(frame), FrameSourceBuffer)
       ]_vars

\* /a was cached by the default loader, the loader was replaced by the one
\* that returns the fixed text, and the next call's frame of /a still shows
\* the lines of the file.
C26_Witness ==
  /\ sourceLoader = "fixed"
  /\ started = 2
  /\ Settled(1)
  /\ FileA \in DOMAIN sourceFiles
  /\ sourceFiles[FileA].contents = DiskA
  /\ countOf(loaderCalls, FileA) = 1
  /\ Len(calls[1].stackFrames) >= 1
  /\ calls[1].stackFrames[1].fileName = FileA
  /\ calls[1].stackFrames[1].source =
       sliceContents(TRUE, DiskA, lineNumberOr1(calls[1].stackFrames[1]),
                     FrameSourceBuffer)

\* The frames of call c that go into its report: those extracted, less the
\* leading ones the offset discards.
keptFrames(c) ==
  Drop(IF offset = <<>> THEN 0 ELSE offset[1], calls[c].rawFrames)

\* Call c is at a kept frame that has a file name; path is the name
\* normalized.
AtNamedFrame(c, path) ==
  LET i == Len(calls[c].stackFrames) + 1
  IN /\ i <= Len(keptFrames(c))
     /\ keptFrames(c)[i].fileName # <<>>
     /\ normalizeFileName(keptFrames(c)[i].fileName).ok
     /\ normalizeFileName(keptFrames(c)[i].fileName).path = path

\* C27: the source loader is invoked, and the cache written, only for a
\* frame that goes into the report and has a file name, never for a frame
\* the offset dropped or a frame without file name; a call whose
\* pre-processor throws invokes no loader and leaves the cache as it was.
C27_LoaderOnlyForReportedFrames ==
  /\ [](\A c \in CallIds :
          Settled(c) =>
            /\ Len(FramesOf(c)) = Len(keptFrames(c))
            /\ \A i \in 1..Len(keptFrames(c)) :
                 FramesOf(c)[i].raw = keptFrames(c)[i].source)
  /\ [][/\ loaderCalls' # loaderCalls =>
             \E c \in CallIds, path \in DOMAIN loaderCalls' :
               /\ calls[c].pc = "enhance"
               /\ AtNamedFrame(c, path)
               /\ loaderCalls' = bump(loaderCalls, path)
               /\ calls'[c].pending.raw =
                    keptFrames(c)[Len(calls[c].stackFrames) + 1].source
        /\ sourceFiles' # sourceFiles =>
             \E c \in CallIds, path \in DOMAIN sourceFiles' :
               /\ calls[c].pc = "loading"
               /\ AtNamedFrame(c, path)
               /\ DOMAIN sourceFiles' = DOMAIN sourceFiles \cup {path}
        /\ \A c \in CallIds :
             calls'[c].failure = "parser" =>
               /\ loaderCalls' = loaderCalls
               /\ sourceFiles' = sourceFiles
               /\ calls'[c].esFrames = <<>>
       ]_vars

\* With offset 1 the call has reported the second and third frame of a
\* stack whose first frame names an http file: the loader was called for
\* the two frames reported and not for the one dropped.
C27_Witness ==
  /\ offset = <<1>>
  /\ started = 1
  /\ Settled(1)
  /\ calls[1].rawFrames = <<fHttp, fUrlA, fNative>>
  /\ Len(FramesOf(1)) = 2
  /\ DOMAIN loaderCalls = {FileA, FileNative}
  /\ DOMAIN sourceFiles = {FileA}

\* No call has rejected, each frame reported has the window of the
\* loader's result, and the cache holds for each name the one SourceFile of
\* the loader's result, the loader having been called for the name at most
\* once per call.
RaceLeftNoTrace ==
  /\ \A c \in CallIds : calls[c].pc # "rejected"
  /\ \A c \in CallIds :
       Settled(c) =>
         /\ Len(FramesOf(c)) = Len(keptFrames(c))
         /\ \A i \in 1..Len(keptFrames(c)) :
              FramesOf(c)[i] = referenceFrame(keptFrames(c)[i], sourceLoader)
  /\ \A k \in DOMAIN sourceFiles :
       /\ countOf(loaderCalls, k) <= started
       /\ \E frame \in {fA, fMissing} :
            /\ frame.fileName = k
            /\ sourceFiles[k] =
                 loadedSourceFile(
                   callLoader(sourceLoader,
                              classify(toStackFrame(frame), k)).contents)

InFlight == {"enhance", "loading", "transform"}

\* How far call c has come: two per frame enhanced, one for a loader
\* awaited, one for the report assembled, one for the promise resolved.
progress(call) ==
  CASE call.pc = "enhance" -> 2 * Len(call.stackFrames)
    [] call.pc = "loading" -> 2 * Len(call.stackFrames) + 1
    [] call.pc = "transform" -> 2 * Len(call.esFrames) + 1
    [] call.pc = "done" -> 2 * Len(call.esFrames) + 2
    [] OTHER -> 0

\* A call in flight is where one of its continuations runs next: in the
\* loop with frames left or none, awaiting the loader, or past the last
\* post-processor.
HasNextStep(c) ==
  /\ calls[c].pc \in InFlight \cup {"idle", "done"}
  /\ calls[c].pc = "enhance" =>
       Len(calls[c].stackFrames) <= Len(calls[c].esFrames)
  /\ calls[c].pc = "transform" => calls[c].t > Len(transformers)

\* C22: two overlapping parse calls that miss the same name in the cache
\* may both call the loader, at most once per call, and the race is benign:
\* in every state of every interleaving no call has rejected, each frame
\* reported has the window of the loader's result and the cache holds one
\* entry per name, the loader's result; and both calls resolve: a call in
\* flight always has its next step at hand, and each of its steps takes it
\* closer to its resolution, whatever the other call does in between.
C22_OverlapIsBenign ==
  /\ [](RaceLeftNoTrace /\ \A c \in CallIds : HasNextStep(c))
  /\ [][\A c \in CallIds :
          (calls[c].pc \in InFlight /\ calls'[c] # calls[c]) =>
            /\ calls'[c].pc \in InFlight \cup {"done"}
            /\ progress(calls'[c]) > progress(calls[c])
            /\ progress(calls'[c]) <= 2 * Len(calls[c].esFrames) + 2
       ]_vars

\* Both calls called the loader for /a before either wrote the cache, both
\* have resolved with the window of /a, and the cache has the one entry.
C22_Witness ==
  /\ countOf(loaderCalls, FileA) = 2
  /\ DOMAIN sourceFiles = {FileA}
  /\ \A c \in CallIds :
       /\ Settled(c)
       /\ calls[c].rawFrames = <<fA>>
       /\ Len(FramesOf(c)) = 1
       /\ FramesOf(c)[1].source.present

=============================================================================
